---- MODULE Spec2Model ----
(***************************************************************************)
(* A model of youki's src/utils.rs: the path helpers of PathBufExt, the    *)
(* directory creation with verified owner and mode, the procfs check and   *)
(* the TempDir life cycle.  Each component has its own specification:      *)
(*   SpecPath  as_in_container and join_absolute_path on bounded paths     *)
(*   SpecDir   create_dir_all_with_mode on a small file system             *)
(*   SpecProc  ensure_procfs interleaved with an actor that mounts         *)
(*   SpecTmp   TempDir::new / path / remove / drop                         *)
(***************************************************************************)
EXTENDS Integers, Sequences, FiniteSets, TLC

VARIABLES
    \* PathBufExt
    pself,      \* the receiver (self) of the call, a path as a sequence of units
    parg,       \* the argument p of join_absolute_path
    pop,        \* which method has been called: "none", "as_in_container", "join"
    pres,       \* the Result the call returned
    \* create_dir_all_with_mode
    fs,         \* the file system: path -> node
    umask,      \* the process's file mode creation mask
    euid,       \* the process's effective user id
    dspec,      \* the arguments of the calls: path, owner, mode
    last,       \* the latest call: what it saw and what it returned
    prev,       \* the call before it, when both are create_dir_all_with_mode
    \* ensure_procfs
    mnt,        \* procfs paths: path -> file system type mounted there
    ppath,      \* the path ensure_procfs was called with
    ppc,        \* position in ensure_procfs: "start", "opened", "done"
    pfd,        \* the open file: the file system type it lives on
    procres,    \* the Result of ensure_procfs
    \* TempDir
    disk,       \* the set of directories that exist under the temp directory
    tpath,      \* the path handed to TempDir::new
    td,         \* the TempDir value: its life-cycle state and its path field
    acc,        \* what the latest path()/as_ref()/deref() did
    rmlog,      \* one entry per fs::remove_dir_all call: did it succeed
    nremove,    \* number of TempDir::remove calls so far (explicit or by drop)
    tlast       \* the latest TempDir operation and the disk before it

pathVars == <<pself, parg, pop, pres>>
dirVars  == <<fs, umask, euid, dspec, last, prev>>
procVars == <<mnt, ppath, ppc, pfd, procres>>
tmpVars  == <<disk, tpath, td, acc, rmlog, nremove, tlast>>
vars     == <<pself, parg, pop, pres, fs, umask, euid, dspec, last, prev,
              mnt, ppath, ppc, pfd, procres, disk, tpath, td, acc, rmlog,
              nremove, tlast>>

(***************************************************************************)
(* Result<T>: Ok(v) or Err(e).                                             *)
(***************************************************************************)
Ok(v)  == [ok |-> TRUE,  val |-> v,    err |-> "none"]
Err(e) == [ok |-> FALSE, val |-> <<>>, err |-> e]
NoResult == [ok |-> FALSE, val |-> <<>>, err |-> "not called"]

(***************************************************************************)
(* Paths.  A path is a sequence of units: an ASCII character, or a byte    *)
(* that is not valid UTF-8 (OsStr holds arbitrary bytes on Unix).          *)
(***************************************************************************)
MaxLen == 3

Slash       == "/"
BadByte     == "xFF"     \* a byte that is not valid UTF-8
Replacement == "uFFFD"   \* U+FFFD, what a lossy conversion puts in its place
Chars       == {Slash, "a", ".", BadByte}

Paths == UNION {[1..n -> Chars] : n \in 0..MaxLen}

\* Path::is_absolute on Unix: the path has a root, it starts with a separator.
IsAbsolute(p) == Len(p) > 0 /\ p[1] = Slash

\* Path::is_relative is !is_absolute.
IsRelative(p) == ~IsAbsolute(p)

\* OsStr::is_empty
IsEmpty(p) == Len(p) = 0

\* Path::display / to_string_lossy: every invalid byte becomes U+FFFD.
Display(p) == [i \in 1..Len(p) |-> IF p[i] = BadByte THEN Replacement ELSE p[i]]

\* path_string[1..]: the string without its first byte.
DropFirst(s) == SubSeq(s, 2, Len(s))

\* The segments of p between separators, empty ones included.
RECURSIVE Split(_)
Split(p) ==
    IF \A i \in 1..Len(p) : p[i] # Slash THEN <<p>>
    ELSE LET k == CHOOSE i \in 1..Len(p) :
                      p[i] = Slash /\ \A j \in 1..(i - 1) : p[j] # Slash
         IN  <<SubSeq(p, 1, k - 1)>> \o Split(SubSeq(p, k + 1, Len(p)))

RECURSIVE Keep(_)
Keep(segs) ==
    IF segs = <<>> THEN <<>>
    ELSE IF Head(segs) = <<>> \/ Head(segs) = <<".">> THEN Keep(Tail(segs))
    ELSE <<Head(segs)>> \o Keep(Tail(segs))

\* Path::components on Unix: the root, a leading "." of a relative path, then
\* every segment that is neither empty nor ".".  PathBuf's == compares these.
Components(p) ==
    LET segs == Split(p)
    IN  (IF IsAbsolute(p) THEN <<<<Slash>>>> ELSE <<>>)
        \o (IF IsRelative(p) /\ Head(segs) = <<".">> THEN <<<<".">>>> ELSE <<>>)
        \o Keep(segs)

PathEq(p, q) == Components(p) = Components(q)

ErrRelative == "Relative path cannot be converted to the path in the container."
ErrNotAbsolute == "cannot join because it is not the absolute path."

\* A slip: the empty path passes the test for a relative path.
as_in_container_lenient(self) ==
    IF IsRelative(self) /\ ~IsEmpty(self) THEN Err(ErrRelative)
    ELSE Ok(DropFirst(Display(self)))

\* PathBufExt::as_in_container
as_in_container(self) ==
    IF IsRelative(self) THEN Err(ErrRelative)
    ELSE Ok(DropFirst(Display(self)))

\* A slip: PathBuf::join, where an absolute argument replaces the receiver.
join_replacing(self, p) ==
    IF ~IsAbsolute(p) /\ ~IsEmpty(p) THEN Err(ErrNotAbsolute)
    ELSE IF IsAbsolute(p) THEN Ok(Display(p))
    ELSE Ok(Display(self))

\* A slip: the argument is not tested.
join_unchecked(self, p) == Ok(Display(self) \o Display(p))

\* PathBufExt::join_absolute_path
join_absolute_path(self, p) ==
    IF ~IsAbsolute(p) /\ ~IsEmpty(p) THEN Err(ErrNotAbsolute)
    ELSE Ok(Display(self) \o Display(p))

\* The paths of the repository's tests, unit by unit.
SampleA  == <<"s", "a", "m", "p", "l", "e", "/", "a", "/">>
SlashB   == <<"/", "b">>
BSlashC  == <<"b", "/", "c">>
SampleAB == <<"s", "a", "m", "p", "l", "e", "/", "a", "/", "b">>
TestPairs == {<<SampleA, SlashB>>, <<SampleA, BSlashC>>}


(***************************************************************************)
(* The file system create_dir_all_with_mode works on: a chain of names     *)
(* /d1/d2/...; path k is the first k names, path 0 is the root directory.  *)
(***************************************************************************)
DirDepth == 2

S_IFDIR == 16384   \* 0o040000
S_IFREG == 32768   \* 0o100000

Uids      == {0, 1000}
Perms     == {448, 493, 320}    \* 0o700, 0o755, 0o500: permissions found on disk
ReqModes  == {448, 493, 320}    \* 0o700 (Mode::S_IRWXU), 0o755, 0o500: modes asked for
Umasks    == {18, 63}           \* 0o022, 0o077

RECURSIVE BitAnd(_, _)
BitAnd(a, b) ==
    IF a = 0 \/ b = 0 THEN 0
    ELSE (a % 2) * (b % 2) + 2 * BitAnd(a \div 2, b \div 2)

Absent == [kind |-> "absent", uid |-> 0, mode |-> 0]
DirNode(u, perm)  == [kind |-> "dir",  uid |-> u, mode |-> S_IFDIR + perm]
FileNode(u, perm) == [kind |-> "file", uid |-> u, mode |-> S_IFREG + perm]
\* The nodes found on disk at the start: nothing, a file, a directory.
Nodes == {Absent, FileNode(0, 420)} \cup {DirNode(u, m) : u \in Uids, m \in Perms}

\* A name resolves only below directories.
WellFormed(f) ==
    \A k \in 2..DirDepth : f[k] # Absent => f[k - 1].kind = "dir"

FileSystems == {f \in [1..DirDepth -> Nodes] : WellFormed(f)}

\* Metadata::is_dir: st_mode & S_IFMT == S_IFDIR.  S_IFMT (0o170000) is the
\* bits from 2^12 up, so the masked value is st_mode less its low twelve bits.
is_dir(meta) == meta.mode - (meta.mode % 4096) = S_IFDIR

\* The kernel's permission test for the caller uid on a node: uid 0 passes;
\* the owner is judged by the user bits, anyone else by the other bits (the
\* caller is in no group of the node).  The base directory, path 0, lets
\* everyone search and write.
ModeBit(mode, b) == (mode \div b) % 2 = 1
CanSearch(node, uid) ==
    uid = 0 \/ ModeBit(node.mode, IF node.uid = uid THEN 64 ELSE 1)
CanWrite(node, uid) ==
    uid = 0 \/ ModeBit(node.mode, IF node.uid = uid THEN 128 ELSE 2)

\* Name resolution of components j..k of path k, standing in directory j-1.
RECURSIVE Lookup(_, _, _, _)
Lookup(f, j, k, uid) ==
    IF j > k THEN "ok"
    ELSE IF j > 1 /\ ~CanSearch(f[j - 1], uid) THEN "EACCES"
    ELSE IF f[j] = Absent THEN "ENOENT"
    ELSE IF j < k /\ ~is_dir(f[j]) THEN "ENOTDIR"
    ELSE Lookup(f, j + 1, k, uid)

\* Path::exists: the metadata can be read by the caller.
Exists(f, k, uid) == Lookup(f, 1, k, uid) = "ok"

\* Path::is_dir: the metadata can be read and is a directory's.
PathIsDir(f, k, uid) == Exists(f, k, uid) /\ (k = 0 \/ is_dir(f[k]))

\* The error, if any, of reaching the last name of path k for creating it.
ParentError(f, k, uid) ==
    IF Lookup(f, 1, k - 1, uid) # "ok" THEN Lookup(f, 1, k - 1, uid)
    ELSE IF k > 1 /\ ~is_dir(f[k - 1]) THEN "ENOTDIR"
    ELSE IF k > 1 /\ ~CanSearch(f[k - 1], uid) THEN "EACCES"
    ELSE "ok"

\* mkdir(2) with the builder's mode, by a process with this umask and uid.
\* q is the number of nodes the environment still lets it make (disk full,
\* read-only file system).
mkdir(f, k, perm, um, uid, q) ==
    IF k = 0 THEN [f |-> f, q |-> q, e |-> "EEXIST"]
    ELSE IF ParentError(f, k, uid) # "ok"
         THEN [f |-> f, q |-> q, e |-> ParentError(f, k, uid)]
    ELSE IF f[k] # Absent THEN [f |-> f, q |-> q, e |-> "EEXIST"]
    ELSE IF k > 1 /\ ~CanWrite(f[k - 1], uid) THEN [f |-> f, q |-> q, e |-> "EACCES"]
    ELSE IF q = 0 THEN [f |-> f, q |-> q, e |-> "ENOSPC"]
    ELSE [f |-> [f EXCEPT ![k] = DirNode(uid, perm - BitAnd(perm, um))],
          q |-> q - 1, e |-> "ok"]

\* DirBuilder::new().recursive(true).mode(perm).create(path)
RECURSIVE create_recursive(_, _, _, _, _, _)
create_recursive(f, k, perm, um, uid, q) ==
    LET first == mkdir(f, k, perm, um, uid, q)
    IN  IF first.e = "ok" THEN [f |-> first.f, q |-> first.q, ok |-> TRUE]
        ELSE IF first.e # "ENOENT"
             THEN [f |-> f, q |-> q, ok |-> PathIsDir(f, k, uid)]
        ELSE LET up == create_recursive(f, k - 1, perm, um, uid, q)
             IN  IF ~up.ok THEN up
                 ELSE LET again == mkdir(up.f, k, perm, um, uid, up.q)
                      IN  [f |-> again.f, q |-> again.q,
                           ok |-> again.e = "ok" \/ PathIsDir(again.f, k, uid)]

ErrCreate   == "failed to create directory"
ErrMetadata == "failed to get metadata"
ErrAttrs    == "metadata does not possess the expected attributes"
ErrWrite    == "failed to write to"

\* A slip: the owner is not compared.
attributes_match_no_owner(meta, owner, mode) ==
    /\ is_dir(meta)
    /\ BitAnd(meta.mode, mode) = mode

\* The test of lines 117-119 on the metadata read back.
attributes_match(meta, owner, mode) ==
    /\ is_dir(meta)
    /\ meta.uid = owner
    /\ BitAnd(meta.mode, mode) = mode

\* A slip: a directory just created is trusted, and only one found is verified.
create_dir_all_with_mode_trusting(f, k, owner, mode, um, uid, q) ==
    IF Exists(f, k, uid)
    THEN [f |-> f, res |-> IF attributes_match(f[k], owner, mode)
                           THEN Ok(<<>>) ELSE Err(ErrAttrs)]
    ELSE LET made == create_recursive(f, k, mode, um, uid, q)
         IN  [f |-> made.f, res |-> IF made.ok THEN Ok(<<>>) ELSE Err(ErrCreate)]

\* create_dir_all_with_mode(path, owner, mode): the file system it leaves and
\* the Result it returns.
create_dir_all_with_mode(f, k, owner, mode, um, uid, q) ==
    LET made == IF ~Exists(f, k, uid) THEN create_recursive(f, k, mode, um, uid, q)
                ELSE [f |-> f, q |-> q, ok |-> TRUE]
    IN  IF ~made.ok THEN [f |-> made.f, res |-> Err(ErrCreate)]
        ELSE IF ~Exists(made.f, k, uid) THEN [f |-> made.f, res |-> Err(ErrMetadata)]
        ELSE IF attributes_match(made.f[k], owner, mode)
             THEN [f |-> made.f, res |-> Ok(<<>>)]
        ELSE [f |-> made.f, res |-> Err(ErrAttrs)]

\* create_dir_all(path): fs::create_dir_all, a recursive builder with the
\* default mode 0o777.
create_dir_all(f, k, um, uid, q) ==
    LET made == create_recursive(f, k, 511, um, uid, q)
    IN  [f |-> made.f, res |-> IF made.ok THEN Ok(<<>>) ELSE Err(ErrCreate)]

\* write_file(path, contents): fs::write is File::create (open with O_CREAT
\* and O_TRUNC, mode 0o666) followed by write_all.  q is the number of nodes
\* the environment still lets the open make; room says whether it lets the
\* open for writing and the write of the contents through (the file system
\* is writable and has free blocks).  A file the open has made stays when
\* the write fails.  Contents are not part of the state.
write_file(f, k, um, uid, q, room) ==
    IF ParentError(f, k, uid) # "ok" THEN [f |-> f, res |-> Err(ErrWrite)]
    ELSE IF f[k] # Absent
         THEN [f |-> f, res |-> IF ~is_dir(f[k]) /\ CanWrite(f[k], uid) /\ room
                                THEN Ok(<<>>) ELSE Err(ErrWrite)]
    ELSE IF (k > 1 /\ ~CanWrite(f[k - 1], uid)) \/ q = 0
         THEN [f |-> f, res |-> Err(ErrWrite)]
    ELSE [f |-> [f EXCEPT ![k] = FileNode(uid, 438 - BitAnd(438, um))],
          res |-> IF room THEN Ok(<<>>) ELSE Err(ErrWrite)]

NoCall == [op |-> "none", existed |-> FALSE, ondisk |-> FALSE,
           res |-> NoResult, changed |-> FALSE]

(***************************************************************************)
(* ensure_procfs: the paths it is called with, and what is mounted there.  *)
(***************************************************************************)
PROC_SUPER_MAGIC == 40864                 \* 0x9fa0
OtherMagics == {16914836, 61267}          \* tmpfs 0x01021994, ext4 0xef53
NoFile == 0                               \* nothing to open at the path
ProcPaths == {"/proc", "/proc/self/attr"}
MountStates == [ProcPaths -> {NoFile, PROC_SUPER_MAGIC} \cup OtherMagics]

NoFd == [open |-> FALSE, fstype |-> 0]

ErrOpen      == "open failed"
ErrFstatfs   == "fstatfs failed"
ErrNotProcfs == "is not on the procfs"

\* fs::File::open(path): the file object is bound to the file system mounted
\* at the path now.
open_file(mounts, path) ==
    IF mounts[path] = NoFile THEN NoFd
    ELSE [open |-> TRUE, fstype |-> mounts[path]]

\* A slip: statfs on the path, which resolves the name a second time.
statfs_type_by_path(fd, mounts, path) == mounts[path]

\* statfs::fstatfs(&procfs_fd.as_raw_fd()).filesystem_type(): asked of the
\* descriptor, whatever is mounted at the path by now.
fstatfs_type(fd, mounts, path) == fd.fstype

\* Lines 136-140: the verdict on the type reported.
procfs_verdict(fstype) ==
    IF fstype # PROC_SUPER_MAGIC THEN Err(ErrNotProcfs) ELSE Ok(<<>>)

\* Lines 134-140: fstatfs(..)? returns its own error when the call fails
\* (statOk is the environment's answer), the verdict on the type otherwise.
check_descriptor(fd, mounts, path, statOk) ==
    IF ~statOk THEN Err(ErrFstatfs)
    ELSE procfs_verdict(fstatfs_type(fd, mounts, path))

(***************************************************************************)
(* TempDir.  The directories under std::env::temp_dir() form a chain       *)
(* t1/t2/...; path k is the first k names, and disk holds the k that exist.*)
(***************************************************************************)
TmpDepth   == 2
MaxRemoves == 3

None    == [some |-> FALSE, p |-> 0]
Some(k) == [some |-> TRUE,  p |-> k]

NoTempDir == [state |-> "none", path |-> None]
NoAccess  == [kind |-> "none", by |-> "none", val |-> 0, removed |-> FALSE]
NoOp      == [op |-> "none", before |-> {}]

Deepest(d) == IF d = {} THEN 0 ELSE CHOOSE k \in d : \A j \in d : j <= k
DiskStates == {1..k : k \in 0..TmpDepth}

\* std::fs::create_dir_all(&p): refused outright (the caller may not search
\* the directories, whether or not p exists), or else making the missing
\* directories as far as level upto; Ok when it got to p.
std_create_dir_all(d, p, upto, refused) ==
    IF refused THEN [disk |-> d, ok |-> FALSE]
    ELSE [disk |-> d \cup (1..upto), ok |-> upto = p]

\* TempDir::new: Ok(Self { path: Some(p) }) when create_dir_all returned Ok,
\* its error otherwise.
TempDir_new(d, p, upto, refused) ==
    LET made == std_create_dir_all(d, p, upto, refused)
    IN  [disk |-> made.disk,
         td   |-> IF made.ok THEN [state |-> "live", path |-> Some(p)]
                  ELSE [state |-> "failed", path |-> None]]

\* fs::remove_dir_all(p) that left the levels up to keep: it succeeded when p
\* itself is gone.
remove_dir_all(d, keep) == {k \in d : k <= keep}

\* A slip: the path is not cleared after the deletion.
remove_keeps_path(self, d, log, keep) ==
    IF self.path.some
    THEN LET after == remove_dir_all(d, keep)
         IN  [td |-> self, disk |-> after,
              log |-> Append(log, self.path.p \notin after)]
    ELSE [td |-> self, disk |-> d, log |-> log]

\* A slip: the path is cleared and nothing is deleted.
remove_without_delete(self, d, log, keep) ==
    [td |-> [self EXCEPT !.path = None], disk |-> d, log |-> log]

\* TempDir::remove: what it leaves of the value, the disk and the log of
\* deletions.
remove(self, d, log, keep) ==
    IF self.path.some
    THEN LET after == remove_dir_all(d, keep)
         IN  [td   |-> [self EXCEPT !.path = None],
              disk |-> after,
              log  |-> Append(log, self.path.p \notin after)]
    ELSE [td |-> self, disk |-> d, log |-> log]

\* A slip: unwrap_or_default() in place of expect().
path_or_default(self) ==
    IF self.path.some
    THEN [kind |-> "returned", val |-> self.path.p]
    ELSE [kind |-> "returned", val |-> 0]

\* TempDir::path: the path, or the panic of expect().
path(self) ==
    IF self.path.some
    THEN [kind |-> "returned", val |-> self.path.p]
    ELSE [kind |-> "panic", val |-> 0]


PathIdle == pself = <<>> /\ parg = <<>> /\ pop = "none" /\ pres = NoResult

\* The state of a component a specification does not exercise.
DirIdle  == fs = <<>> /\ umask = 0 /\ euid = 0 /\ dspec = <<>> /\ last = NoCall /\ prev = NoCall
ProcIdle == mnt = <<>> /\ ppath = "" /\ ppc = "start" /\ pfd = NoFd /\ procres = NoResult
TmpIdle  ==
    /\ disk = {} /\ tpath = 0 /\ td = NoTempDir /\ acc = NoAccess
    /\ rmlog = <<>> /\ nremove = 0 /\ tlast = NoOp

(***************************************************************************)
(* SpecPath: one call of a PathBufExt method on any bounded receiver and   *)
(* argument, and on the paths of the repository's tests.                   *)
(***************************************************************************)
InitPath ==
    /\ \E pair \in (Paths \X Paths) \cup TestPairs :
           pself = pair[1] /\ parg = pair[2]
    /\ pop = "none"
    /\ pres = NoResult
    /\ DirIdle /\ ProcIdle /\ TmpIdle

CallAsInContainer ==
    /\ pop = "none"
    /\ pop' = "as_in_container"
    /\ pres' = as_in_container(pself)
    /\ UNCHANGED <<pself, parg, dirVars, procVars, tmpVars>>

CallJoinAbsolutePath ==
    /\ pop = "none"
    /\ pop' = "join"
    /\ pres' = join_absolute_path(pself, parg)
    /\ UNCHANGED <<pself, parg, dirVars, procVars, tmpVars>>

NextPath == CallAsInContainer \/ CallJoinAbsolutePath

SpecPath == InitPath /\ [][NextPath]_vars

\* The textual form of one unit of a path, as the claims speak of it.
TextOf(u) == IF u = BadByte THEN Replacement ELSE u

\* C1: for every base and every fragment that is absolute or empty,
\* join_absolute_path succeeds and returns the text of the base followed, unit
\* for unit, by the text of the fragment (nothing inserted, removed or
\* collapsed, the fragment never replaces the base); "sample/a/" joined with
\* "/b" is the path "sample/a/b".
C1_JoinIsLiteralConcatenation ==
    (pop = "join" /\ (parg = <<>> \/ parg[1] = Slash)) =>
        /\ pres.ok
        /\ Len(pres.val) = Len(pself) + Len(parg)
        /\ \A i \in 1..Len(pself) : pres.val[i] = TextOf(pself[i])
        /\ \A i \in 1..Len(parg) : pres.val[Len(pself) + i] = TextOf(parg[i])
        /\ (pself = SampleA /\ parg = SlashB => PathEq(pres.val, SampleAB))

C1_Witness ==
    pop = "join" /\ pself = SampleA /\ parg = SlashB /\ pres.ok

\* C2: for every base and every non-empty relative fragment,
\* join_absolute_path fails with its invalid-path error and returns no path;
\* "sample/a/" joined with "b/c" fails.
C2_JoinRejectsRelativeFragment ==
    (pop = "join" /\ parg # <<>> /\ parg[1] # Slash) =>
        ~pres.ok /\ pres.err = ErrNotAbsolute /\ pres.val = <<>>

C2_Witness ==
    pop = "join" /\ pself = SampleA /\ parg = BSlashC /\ ~pres.ok

\* C3: for every absolute path p, several leading separators and the root
\* itself included, as_in_container succeeds with the text of p minus exactly
\* its first separator, everything else intact, and the result is relative
\* (it does not start with a separator).
C3_AsInContainerStripsRootAndIsRelative ==
    (pop = "as_in_container" /\ pself # <<>> /\ pself[1] = Slash) =>
        /\ pres.ok
        /\ Len(pres.val) = Len(pself) - 1
        /\ \A i \in 1..Len(pres.val) : pres.val[i] = TextOf(pself[i + 1])
        /\ ~(pres.val # <<>> /\ pres.val[1] = Slash)

\* C9: as_in_container fails with its invalid-path error, returning no path,
\* for every relative path, the empty path included.
C9_AsInContainerRejectsRelative ==
    (pop = "as_in_container" /\ (pself = <<>> \/ pself[1] # Slash)) =>
        ~pres.ok /\ pres.err = ErrRelative /\ pres.val = <<>>

C9_Witness ==
    pop = "as_in_container" /\ pself = <<>> /\ ~pres.ok

(***************************************************************************)
(* SpecDir: calls of create_dir_all_with_mode with one DirectorySpec, and  *)
(* of create_dir_all and write_file, on any file system, by a process with *)
(* any of the uids and umasks.                                             *)
(***************************************************************************)
InitDir ==
    /\ fs \in FileSystems
    /\ umask \in Umasks
    /\ euid \in Uids
    /\ dspec \in [path : 1..DirDepth, owner : Uids, mode : ReqModes]
    /\ last = NoCall
    /\ prev = NoCall
    /\ PathIdle /\ ProcIdle /\ TmpIdle

\* The record of a call of create_dir_all_with_mode, and of another call.
Called(k, out) ==
    [op |-> "create_dir_all_with_mode", existed |-> Exists(fs, k, euid),
     ondisk |-> fs[k] # Absent, res |-> out.res, changed |-> out.f # fs]
Other(op, out) == [NoCall EXCEPT !.op = op, !.res = out.res]

CallCreateDirAllWithMode ==
    \E q \in 0..DirDepth :
        LET out == create_dir_all_with_mode(fs, dspec.path, dspec.owner,
                                            dspec.mode, umask, euid, q)
        IN  /\ fs' = out.f
            /\ last' = Called(dspec.path, out)
            /\ prev' = last
            /\ UNCHANGED <<umask, euid, dspec, pathVars, procVars, tmpVars>>

CallCreateDirAll ==
    \E k \in 1..DirDepth, q \in 0..DirDepth :
        LET out == create_dir_all(fs, k, umask, euid, q)
        IN  /\ fs' = out.f
            /\ last' = Other("create_dir_all", out)
            /\ prev' = NoCall
            /\ UNCHANGED <<umask, euid, dspec, pathVars, procVars, tmpVars>>

CallWriteFile ==
    \E k \in 1..DirDepth, q \in 0..1, room \in BOOLEAN :
        LET out == write_file(fs, k, umask, euid, q, room)
        IN  /\ fs' = out.f
            /\ last' = Other("write_file", out)
            /\ prev' = NoCall
            /\ UNCHANGED <<umask, euid, dspec, pathVars, procVars, tmpVars>>

NextDir == CallCreateDirAllWithMode \/ CallCreateDirAll \/ CallWriteFile

SpecDir == InitDir /\ [][NextDir]_vars

\* Permission bits, one by one, as the claims speak of them.
PermBits == {1, 2, 4, 8, 16, 32, 64, 128, 256}
HasBit(n, b) == (n \div b) % 2 = 1
AllBitsPresent(observed, wanted) ==
    \A b \in PermBits : HasBit(wanted, b) => HasBit(observed, b)

\* What is on disk at the target path satisfies the DirectorySpec.
OnDiskSatisfiesSpec ==
    /\ fs[dspec.path].kind = "dir"
    /\ fs[dspec.path].uid = dspec.owner
    /\ AllBitsPresent(fs[dspec.path].mode, dspec.mode)

Ensure(c) == c.op = "create_dir_all_with_mode"

\* C4, as stated: a call on a path that does not exist yet (and that the
\* environment lets it create) returns success, with the owner asked for and
\* every mode bit asked for on disk.
C4_FreshPathAlwaysSucceeds ==
    (Ensure(last) /\ ~last.ondisk /\ last.res.err # ErrCreate) =>
        last.res.ok /\ OnDiskSatisfiesSpec

\* C4, amended: a call on a path that does not exist yet returns success
\* exactly when what it left on disk is a directory with the owner asked for and
\* every mode bit asked for (the directory is made with the caller's uid and
\* the umask applies, so the call may well fail); and once such a call has
\* succeeded, the next call with the same spec succeeds and changes nothing.
C4_FreshPathVerifiedThenIdempotent ==
    /\ (Ensure(last) /\ ~last.ondisk) => (last.res.ok <=> OnDiskSatisfiesSpec)
    /\ (Ensure(prev) /\ ~prev.ondisk /\ prev.res.ok /\ Ensure(last)) =>
           last.res.ok /\ ~last.changed /\ OnDiskSatisfiesSpec

C4_Witness ==
    /\ Ensure(prev) /\ ~prev.ondisk /\ prev.res.ok
    /\ Ensure(last) /\ last.ondisk /\ last.res.ok /\ ~last.changed
    /\ OnDiskSatisfiesSpec

\* C5, as stated: when the target path exists already, the call returns success
\* exactly when it is a directory with the owner asked for and every mode bit
\* asked for (more bits are fine), and fails with the attribute mismatch
\* otherwise.
C5_ExistingPathVerdictOnDisk ==
    (Ensure(last) /\ last.ondisk) =>
        /\ last.res.ok <=> OnDiskSatisfiesSpec
        /\ ~last.res.ok => last.res.err = ErrAttrs

\* C5, amended: when the target path exists already and the caller can resolve
\* it (Path::exists is true), the call returns success exactly when the
\* metadata shows a directory, the owner asked for and every mode bit asked for
\* (more bits are fine), and fails with the attribute mismatch otherwise; so it
\* fails on a directory of another owner whose mode matches.  A target that
\* exists where the caller may not search is taken as missing: the call fails
\* with the creation error.  Either way nothing on disk changes.
C5_ExistingPathVerdict ==
    /\ (Ensure(last) /\ last.existed) =>
           /\ last.ondisk
           /\ last.res.ok <=> OnDiskSatisfiesSpec
           /\ ~last.res.ok => last.res.err = ErrAttrs
           /\ ~last.changed
    /\ (Ensure(last) /\ last.ondisk /\ ~last.existed) =>
           ~last.res.ok /\ last.res.err = ErrCreate /\ ~last.changed

C5_Witness ==
    /\ Ensure(last) /\ last.existed
    /\ fs[dspec.path].kind = "dir"
    /\ fs[dspec.path].uid # dspec.owner
    /\ AllBitsPresent(fs[dspec.path].mode, dspec.mode)
    /\ ~last.res.ok /\ last.res.err = ErrAttrs

(***************************************************************************)
(* SpecProc: one call of ensure_procfs, step by step, while another actor  *)
(* mounts and unmounts file systems at the paths.                          *)
(***************************************************************************)
InitProc ==
    /\ mnt \in MountStates
    /\ ppath \in ProcPaths
    /\ ppc = "start"
    /\ pfd = NoFd
    /\ procres = NoResult
    /\ PathIdle /\ DirIdle /\ TmpIdle

\* Line 133: fs::File::open(path)?
ProcOpen ==
    /\ ppc = "start"
    /\ pfd' = open_file(mnt, ppath)
    /\ IF pfd'.open
       THEN ppc' = "opened" /\ procres' = procres
       ELSE ppc' = "done" /\ procres' = Err(ErrOpen)
    /\ UNCHANGED <<mnt, ppath, pathVars, dirVars, tmpVars>>

\* Lines 134-140: fstatfs on the descriptor, and the comparison.
ProcCheck ==
    /\ ppc = "opened"
    /\ \E statOk \in BOOLEAN :
           procres' = check_descriptor(pfd, mnt, ppath, statOk)
    /\ ppc' = "done"
    /\ UNCHANGED <<mnt, ppath, pfd, pathVars, dirVars, tmpVars>>

\* Another process mounts a file system over a path, or unmounts one.
ExternalMount ==
    \E q \in ProcPaths, t \in {NoFile, PROC_SUPER_MAGIC} \cup OtherMagics :
        /\ mnt[q] # t
        /\ mnt' = [mnt EXCEPT ![q] = t]
        /\ UNCHANGED <<ppath, ppc, pfd, procres, pathVars, dirVars, tmpVars>>

NextProc == ProcOpen \/ ProcCheck \/ ExternalMount

SpecProc == InitProc /\ [][NextProc]_vars

(***************************************************************************)
(* SpecTmp: the life of one TempDir: new, then accesses and removes in any *)
(* order, then the end of the owning scope (or the unwinding of a panic).  *)
(***************************************************************************)
InitTmp ==
    /\ disk \in DiskStates
    /\ tpath \in 1..TmpDepth
    /\ td = NoTempDir
    /\ acc = NoAccess
    /\ rmlog = <<>>
    /\ nremove = 0
    /\ tlast = NoOp
    /\ PathIdle /\ DirIdle /\ ProcIdle

\* TempDir::new(path); create_dir_all may be refused or stop short of the path.
TempDirNew ==
    /\ td.state = "none"
    /\ \E upto \in 0..tpath, refused \in BOOLEAN :
           /\ upto >= (IF Deepest(disk) < tpath THEN Deepest(disk) ELSE tpath)
           /\ LET made == TempDir_new(disk, tpath, upto, refused)
              IN  disk' = made.disk /\ td' = made.td
    /\ tlast' = [op |-> "new", before |-> disk]
    /\ UNCHANGED <<tpath, acc, rmlog, nremove, pathVars, dirVars, procVars>>

\* path(), or as_ref() or deref(), which call it.  A panic unwinds the scope.
TempDirAccess ==
    /\ td.state = "live"
    /\ \E by \in {"path", "as_ref", "deref"} :
           LET r == path(td)
           IN  /\ acc' = [kind |-> r.kind, by |-> by, val |-> r.val,
                          removed |-> nremove > 0]
               /\ td' = IF r.kind = "panic" THEN [td EXCEPT !.state = "unwinding"]
                        ELSE td
    /\ tlast' = [op |-> "access", before |-> disk]
    /\ UNCHANGED <<disk, tpath, rmlog, nremove, pathVars, dirVars, procVars>>

\* An explicit remove().
TempDirRemove ==
    /\ td.state = "live"
    /\ nremove < MaxRemoves
    /\ \E keep \in 0..TmpDepth :
           /\ td.path.some => keep >= td.path.p - 1
           /\ LET r == remove(td, disk, rmlog, keep)
              IN  td' = r.td /\ disk' = r.disk /\ rmlog' = r.log
    /\ nremove' = nremove + 1
    /\ tlast' = [op |-> "remove", before |-> disk]
    /\ UNCHANGED <<tpath, acc, pathVars, dirVars, procVars>>

\* Drop for TempDir: the scope ends, by return or by unwinding.
TempDirDrop ==
    /\ td.state \in {"live", "unwinding"}
    /\ \E keep \in 0..TmpDepth :
           /\ td.path.some => keep >= td.path.p - 1
           /\ LET r == remove(td, disk, rmlog, keep)
              IN  /\ td' = [r.td EXCEPT !.state = "dropped"]
                  /\ disk' = r.disk
                  /\ rmlog' = r.log
    /\ nremove' = nremove + 1
    /\ tlast' = [op |-> "drop", before |-> disk]
    /\ UNCHANGED <<tpath, acc, pathVars, dirVars, procVars>>

NextTmp == TempDirNew \/ TempDirAccess \/ TempDirRemove \/ TempDirDrop

SpecTmp == InitTmp /\ [][NextTmp]_vars

\* C6, as stated: ensure_procfs opens the path once and asks the descriptor
\* for its file system type: it succeeds exactly when the file system the
\* descriptor was opened on is procfs and fails with the not-procfs error
\* otherwise (with the open error when there was nothing to open), whatever
\* another actor has mounted over the path since the open.
C6_VerdictIsProcfsOrNot ==
    ppc = "done" =>
        IF pfd.open
        THEN /\ procres.ok <=> pfd.fstype = PROC_SUPER_MAGIC
             /\ ~procres.ok => procres.err = ErrNotProcfs
        ELSE ~procres.ok /\ procres.err = ErrOpen

\* C6, amended: ensure_procfs opens the path once and asks the descriptor for
\* its file system type.  It succeeds only if the file system the descriptor
\* was opened on is procfs; unless fstatfs itself fails on the descriptor (its
\* error is returned), it succeeds exactly then and fails with the not-procfs
\* error otherwise; whatever another actor has mounted over the path since
\* the open.
C6_VerdictReflectsOpenedDescriptor ==
    ppc = "done" =>
        IF pfd.open
        THEN /\ procres.ok => pfd.fstype = PROC_SUPER_MAGIC
             /\ procres.err # ErrFstatfs =>
                    /\ procres.ok <=> pfd.fstype = PROC_SUPER_MAGIC
                    /\ ~procres.ok => procres.err = ErrNotProcfs
        ELSE ~procres.ok /\ procres.err = ErrOpen

C6_Witness ==
    /\ ppc = "done" /\ pfd.open
    /\ pfd.fstype = PROC_SUPER_MAGIC /\ procres.ok
    /\ mnt[ppath] \in OtherMagics

\* C7, as stated: the directory exists right after a successful construction;
\* after remove() has returned or the scope has ended it no longer exists; and
\* a second remove() completes without a fault and without touching the disk.
C7_GoneAfterRemoveOrDrop ==
    /\ (tlast.op = "new" /\ td.state = "live") => tpath \in disk
    /\ nremove >= 1 => tpath \notin disk
    /\ (tlast.op = "remove" /\ nremove >= 2) =>
           td.state = "live" /\ disk = tlast.before

\* C7, amended: the directory exists right after a successful construction;
\* after remove() has returned or the scope has ended it no longer exists,
\* unless the one recursive deletion failed (its error is discarded and the
\* directory may stay); and a second remove() completes without a fault and
\* without touching the disk.
C7_GoneAfterRemoveOrDropUnlessDeletionFailed ==
    /\ (tlast.op = "new" /\ td.state = "live") => tpath \in disk
    /\ nremove >= 1 => (tpath \notin disk \/ rmlog = <<FALSE>>)
    /\ (tlast.op = "remove" /\ nremove >= 2) =>
           td.state = "live" /\ disk = tlast.before

C7_Witness ==
    /\ td.state = "dropped" /\ tlast.op = "drop"
    /\ nremove >= 3
    /\ rmlog = <<TRUE>>
    /\ tpath \notin disk

\* C8: path(), as_ref() and deref() return the path given at construction as
\* long as no remove() has run, and after one has run every such access is a
\* panic: never a stale path, never an error value.
C8_PathOrPanic ==
    acc.kind # "none" =>
        IF acc.removed THEN acc.kind = "panic"
        ELSE acc.kind = "returned" /\ acc.val = tpath

C8_Witness ==
    acc.kind = "panic" /\ acc.removed /\ acc.by = "deref" /\ td.state = "dropped"

\* C10: over any sequence of remove() calls ended by the drop, the path is
\* cleared exactly once and never set again; the recursive deletion is
\* attempted exactly once, by the first remove() or else by the drop; every
\* later remove() or drop changes neither the disk nor the value; and the
\* path is cleared also when the deletion failed.
C10_RemovedExactlyOnce ==
    /\ [](/\ Len(rmlog) <= 1
          /\ nremove >= 1 => (Len(rmlog) = 1 /\ ~td.path.some)
          /\ (td.state = "live" /\ nremove = 0) => (td.path = Some(tpath) /\ rmlog = <<>>)
          /\ td.state = "dropped" => Len(rmlog) = 1)
    /\ [][(td.state \in {"live", "unwinding"} /\ ~td.path.some) =>
              (~td'.path.some /\ disk' = disk /\ rmlog' = rmlog)]_vars

C10_Witness ==
    /\ td.state = "dropped"
    /\ nremove >= 3
    /\ rmlog = <<FALSE>>
    /\ tpath \in disk
====
